---- MODULE Spec2Model ----
(***************************************************************************)
(* A model of the neoboy Game Boy core: the memory bus (memory.rs) and the *)
(* cartridge image (cartridge.rs).                                         *)
(*                                                                         *)
(* The 64 KiB array Memory.data is followed at the cells of MemoryCells,   *)
(* the first and last address of every region that write_byte tells apart  *)
(* together with each one's echo partner.  Every store of the program      *)
(* writes a cell from the call's arguments alone, so the value of a        *)
(* followed cell is exactly what the program holds there.                  *)
(***************************************************************************)
EXTENDS Integers, Sequences, FiniteSets, TLC

VARIABLES
    data,        \* Memory.data, at the cells of MemoryCells
    lastOp,      \* the last Memory call and its arguments
    result,      \* what the last Memory call returned
    nops,        \* number of Memory calls made
    ifStoredBy,  \* the call that made the latest store to data[0xFF0F]
    cart,        \* Cartridge.data, or None before a cartridge is constructed
    cartArg,     \* the buffer given to Cartridge::new
    cartRes,     \* what Cartridge::new returned
    hdr,         \* what the last has_valid_header_checksum call returned
    prevHdr,     \* hdr as it was when the last byte was replaced
    lastReplace, \* the last replacement of a byte of Cartridge.data
    nrep,        \* number of bytes replaced
    glob,        \* what the last has_valid_global_checksum call returned
    decoded,     \* what the last Operation::from_memory call returned
    lastDecode,  \* the last Operation::from_memory call: pc, memory, build
    ndec,        \* number of Operation::from_memory calls made
    cpu,         \* Machine.cpu once Machine::new was called: pc and sp
    stepRes,     \* what the last Machine::step call returned
    lastStep,    \* the last Machine::step call: the cpu before it, the build
    nsteps       \* number of Machine::step calls that returned Ok

memVars == <<data, lastOp, result, nops, ifStoredBy>>
cartVars == <<cart, cartArg, cartRes, hdr, prevHdr, lastReplace, nrep, glob>>
decVars == <<decoded, lastDecode, ndec>>
machVars == <<cpu, stepRes, lastStep, nsteps>>
vars == <<data, lastOp, result, nops, ifStoredBy,
          cart, cartArg, cartRes, hdr, prevHdr, lastReplace, nrep, glob,
          decoded, lastDecode, ndec, cpu, stepRes, lastStep, nsteps>>

\* Option<T>: None, Some(x)
None == <<>>

Some(x) == <<x>>

\* The values of an option: none or one
Range(o) == { o[i] : i \in DOMAIN o }

\* Values returned by the calls
Unit == [kind |-> "unit"]

Ok == [kind |-> "Ok"]

Panic == [kind |-> "panic"]

\* GameboyErrorKind::MemoryLoadOutOfBounds(Address, usize)
MemoryLoadOutOfBounds(address, size) ==
    [kind |-> "Err", err |-> "MemoryLoadOutOfBounds",
     address |-> address, size |-> size]

\* GameboyErrorKind::CartridgeTooSmall(usize)
CartridgeTooSmall(size) ==
    [kind |-> "Err", err |-> "CartridgeTooSmall", size |-> size]

-----------------------------------------------------------------------------
(* Bounds of the exploration. *)

\* Memory calls (write_byte, load) in one run.
MaxOps == 2

\* Byte replacements applied to one cartridge image.
MaxReplace == 2

\* Operation::from_memory calls made on one Memory.
MaxDecodes == 2

\* Machine::step calls that return Ok on one Machine: enough for pc to run
\* from 0x0100 past 0xFFFF.
MaxSteps == 65281

-----------------------------------------------------------------------------
(* u8 and u16 arithmetic. *)

RECURSIVE BitAnd(_, _)
\* x & y
BitAnd(x, y) ==
    IF x = 0 \/ y = 0 THEN 0
    ELSE (x % 2) * (y % 2) + 2 * BitAnd(x \div 2, y \div 2)

RECURSIVE BitOr(_, _)
\* x | y
BitOr(x, y) ==
    IF x = 0 THEN y
    ELSE IF y = 0 THEN x
    ELSE (IF x % 2 = 1 \/ y % 2 = 1 THEN 1 ELSE 0) + 2 * BitOr(x \div 2, y \div 2)

\* !x on a u8
BitNot8(x) == 255 - x

\* `size as Address`: a usize cast to u16 keeps the low 16 bits
AsAddress(size) == size % (2^16)

\* u16::checked_add: None when the sum does not fit in 16 bits
checked_add_sum_over_0x10000(a, b) == IF a + b > \h10000 THEN None ELSE Some(a + b)

checked_add(a, b) == IF a + b > \hFFFF THEN None ELSE Some(a + b)

\* u8::wrapping_add
wrapping_add(a, b) == (a + b) % 256

\* u16::wrapping_add
wrapping_add_u16(a, b) == (a + b) % (2^16)

-----------------------------------------------------------------------------
(* Memory (memory.rs). *)

GAMEBOY_MEMORY_SIZE_BYTES == \h10000

\* The cells of Memory.data that the model follows: both ends of each region
\* of the write_byte match, 0x0001 and 0x0100..0x0102.  Closed under the echo
\* partner (+/- 0x2000) of the WRAM and echo cells.
MemoryCells ==
    { \h0000, \h0001, \h0100, \h0101, \h0102, \h7FFF,     \* ROM
      \h8000, \h9FFF,                             \* VRAM
      \hA000, \hBFFF,                             \* cartridge RAM
      \hC000, \hDDFF,                             \* WRAM with an echo
      \hDE00, \hDFFF,                             \* WRAM without an echo
      \hE000, \hFDFF,                             \* echo of WRAM
      \hFE00, \hFE9F,                             \* OAM
      \hFEA0, \hFEFF,                             \* unused
      \hFF00, \hFF0E, \hFF0F, \hFF10, \hFF7F,     \* I/O registers
      \hFF80, \hFFFE,                             \* HRAM
      \hFFFF }                                    \* IE

\* self.data[index] = value
Store(d, index, value) ==
    IF index \in DOMAIN d THEN [d EXCEPT ![index] = value] ELSE d

\* Memory::new
Memory_new == [a \in MemoryCells |-> IF a = \hFF0F THEN \hE0 ELSE 0]

\* Memory::read_byte.  A cell that is not followed is read only where no call
\* has stored to it, so that it holds the 0x00 of Memory::new.
read_byte(d, address) == IF address \in DOMAIN d THEN d[address] ELSE \h00

\* write_byte, arm 0xC000..=0xDDFF
WramArm_no_echo(d, address, value) == Store(d, address, value)

WramArm(d, address, value) ==
    Store(Store(d, address, value), address + \h2000, value)

\* write_byte, arm 0xE000..=0xFDFF
EchoArm_no_wram(d, address, value) == Store(d, address, value)

EchoArm(d, address, value) ==
    Store(Store(d, address, value), address - \h2000, value)

\* write_byte, arm 0xFEA0..=0xFEFF
UnusedArm_stores(d, address, value) == Store(d, address, value)

UnusedArm(d, address, value) == d

\* write_byte, arm 0xFF0F
InterruptFlagArm_unmasked(d, address, value) == Store(d, address, value)

InterruptFlagArm(d, address, value) ==
    Store(d, address, BitOr(BitAnd(value, BitNot8(\hE0)), \hE0))

DefaultArm_echoes(d, address, value) ==
    Store(Store(d, address, value), address + \h2000, value)

\* write_byte, arm _
DefaultArm(d, address, value) == Store(d, address, value)

\* the match of Memory::write_byte, as the new contents of data
write_byte_data(d, address, value) ==
    IF address \in \hC000..\hDDFF THEN WramArm(d, address, value)
    ELSE IF address \in \hE000..\hFDFF THEN EchoArm(d, address, value)
    ELSE IF address \in \hFEA0..\hFEFF THEN UnusedArm(d, address, value)
    ELSE IF address = \hFF0F THEN InterruptFlagArm(d, address, value)
    ELSE DefaultArm(d, address, value)

\* A slice argument &[u8]: its length and its bytes, either listed or given
\* as first, first+1, ...
SliceAt(slice, i) ==
    IF "bytes" \in DOMAIN slice THEN slice.bytes[i + 1]
    ELSE (slice.first + i) % 256

\* self.data[start..end].copy_from_slice(data)
copy_from_slice(d, start, end, slice) ==
    [a \in DOMAIN d |->
        IF start <= a /\ a < end THEN SliceAt(slice, a - start) ELSE d[a]]

\* What Memory::load(data, start_address, size) does: the value returned (or
\* a panic) and the new contents of data.
load_outcome(d, slice, start_address, size) ==
    IF checked_add(start_address, AsAddress(size)) = None
    THEN [ret |-> MemoryLoadOutOfBounds(start_address, size), data |-> d]
    ELSE LET start == start_address
             end == start_address + size
         IN IF end > GAMEBOY_MEMORY_SIZE_BYTES
            THEN [ret |-> Panic, data |-> d]     \* slice index out of range
            ELSE IF slice.len # end - start
            THEN [ret |-> Panic, data |-> d]     \* copy_from_slice lengths
            ELSE [ret |-> Ok, data |-> copy_from_slice(d, start, end, slice)]

-----------------------------------------------------------------------------
(* Cartridge (cartridge.rs). *)

\* Cartridge.data, a Vec<u8>: its length, and its bytes given as the byte that
\* fills it and the bytes that differ from the fill.
MINIMUM_CARTRIDGE_SIZE_BYTES == \h8000

\* vec![fill; len]
Vec(len, fill) == [len |-> len, fill |-> fill, patch |-> <<>>]

\* self.data[index]
DataAt(v, index) ==
    IF index \in DOMAIN v.patch THEN v.patch[index] ELSE v.fill

\* self.data[index] = value
DataSet(v, index, value) ==
    [v EXCEPT !.patch =
        [i \in (DOMAIN v.patch) \cup {index} |->
            IF i = index THEN value ELSE v.patch[i]]]

\* Cartridge::new
Cartridge_new_accepts_shorter(v) ==
    IF v.len < MINIMUM_CARTRIDGE_SIZE_BYTES - 1
    THEN CartridgeTooSmall(v.len)
    ELSE [kind |-> "Ok", data |-> v]

Cartridge_new(v) ==
    IF v.len < MINIMUM_CARTRIDGE_SIZE_BYTES
    THEN CartridgeTooSmall(v.len)
    ELSE [kind |-> "Ok", data |-> v]

RECURSIVE header_checksum_loop(_, _, _, _)
\* for index in first..=last { checksum = checksum.wrapping_add(data[index]) }
header_checksum_loop(v, index, last, checksum) ==
    IF index > last THEN checksum
    ELSE header_checksum_loop(v, index + 1, last,
                              wrapping_add(checksum, DataAt(v, index)))

\* Cartridge::has_valid_header_checksum
has_valid_header_checksum_seed_0(v) ==
    header_checksum_loop(v, \h0134, \h014D, \h00) = \h00

has_valid_header_checksum_short_range(v) ==
    header_checksum_loop(v, \h0134, \h014C, \h19) = \h00

has_valid_header_checksum(v) ==
    header_checksum_loop(v, \h0134, \h014D, \h19) = \h00

RECURSIVE global_checksum_loop(_, _, _, _)
\* for index in first..end { checksum = checksum.wrapping_add(data[index] as u16) }
\* A run of bytes that all equal the fill is added in one step: the n wrapping
\* additions of the same byte.
global_checksum_loop(v, index, end, checksum) ==
    IF index >= end THEN checksum
    ELSE IF index \in DOMAIN v.patch
    THEN global_checksum_loop(v, index + 1, end,
                              wrapping_add_u16(checksum, v.patch[index]))
    ELSE LET stops == { i \in DOMAIN v.patch : index < i /\ i < end }
             next == IF stops = {} THEN end
                     ELSE CHOOSE i \in stops : \A j \in stops : i <= j
         IN global_checksum_loop(v, next, end,
                wrapping_add_u16(checksum, ((next - index) * v.fill) % (2^16)))

\* Cartridge::has_valid_global_checksum
has_valid_global_checksum_sums_checksum_bytes(v) ==
    LET expected == BitOr(DataAt(v, \h014E) * (2^8), DataAt(v, \h014F))
    IN global_checksum_loop(v, \h0000, v.len, \h00) = expected

has_valid_global_checksum(v) ==
    LET expected == BitOr(DataAt(v, \h014E) * (2^8), DataAt(v, \h014F))
        first == global_checksum_loop(v, \h0000, \h014E, \h00)
    IN global_checksum_loop(v, \h0150, v.len, first) = expected

-----------------------------------------------------------------------------
(* Operations (operations.rs): operands and results of the decoder. *)

\* enum Reg8, with its discriminants
Reg8_B == 0

Reg8_C == 1

Reg8_D == 2

Reg8_E == 3

Reg8_H == 4

Reg8_L == 5

Reg8_A == 7

\* enum Reg16, with its discriminants
Reg16_BC == 0

Reg16_DE == 1

Reg16_HL == 2

Reg16_SP == 3

Reg16_AF == 4

\* enum Condition, with the discriminants of its order of declaration
Condition_Z == 0

Condition_NZ == 1

Condition_C == 2

Condition_NC == 3

\* A value an expression came to, as opposed to a panic
Val(x) == [kind |-> "val", val |-> x]

\* Opcode::name(args)
Opcode(name, args) == [name |-> name, args |-> args]

\* Operation{ opcode: opcode, prefix: prefix }
Operation_prefix_zero(opcode, prefix) == [opcode |-> opcode, prefix |-> 0]

Operation(opcode, prefix) == [opcode |-> opcode, prefix |-> prefix]

\* Ok(operation)
OkOperation(operation) == [kind |-> "Ok", op |-> operation]

\* Err(GameboyError::new(GameboyErrorKind::UnknownOpcodePrefix(prefix)))
UnknownOpcodePrefix(prefix) ==
    [kind |-> "Err", err |-> "UnknownOpcodePrefix", prefix |-> prefix]

\* Err(GameboyError::new(GameboyErrorKind::UnknownAluOpcodePrefix(prefix)))
UnknownAluOpcodePrefix(prefix) ==
    [kind |-> "Err", err |-> "UnknownAluOpcodePrefix", prefix |-> prefix]

\* prefix >> n
Shr(prefix, n) == prefix \div (2^n)

prefix_into_reg8_1_low_bits(prefix) ==
    LET field == BitAnd(prefix, \h07)
    IN IF field \in 0..5 THEN field ELSE Reg8_A

\* First method of converting a prefix into an 8-bit register.
prefix_into_reg8_1(prefix) ==
    LET field == BitAnd(Shr(prefix, 3), \h07)
    IN CASE field = 0 -> Reg8_B
         [] field = 1 -> Reg8_C
         [] field = 2 -> Reg8_D
         [] field = 3 -> Reg8_E
         [] field = 4 -> Reg8_H
         [] field = 5 -> Reg8_L
         [] OTHER -> Reg8_A

prefix_into_reg8_2(prefix) ==
    LET field == BitAnd(prefix, \h07)
    IN CASE field = 0 -> Reg8_B
         [] field = 1 -> Reg8_C
         [] field = 2 -> Reg8_D
         [] field = 3 -> Reg8_E
         [] field = 4 -> Reg8_H
         [] field = 5 -> Reg8_L
         [] OTHER -> Reg8_A

\* First method of converting a prefix into a 16-bit register.
prefix_into_reg16_1(prefix) ==
    LET field == BitAnd(Shr(prefix, 4), \h03)
    IN CASE field = 0 -> Reg16_BC
         [] field = 1 -> Reg16_DE
         [] field = 2 -> Reg16_HL
         [] OTHER -> Reg16_SP

prefix_into_reg16_2_selects_sp(prefix) ==
    LET field == BitAnd(Shr(prefix, 4), \h03)
    IN IF field = 3 THEN Reg16_SP ELSE field

\* Second method of converting a prefix into a 16-bit register for HL+/-
\* opcodes.
prefix_into_reg16_2(prefix) ==
    LET field == BitAnd(Shr(prefix, 4), \h03)
    IN CASE field = 0 -> Reg16_BC
         [] field = 1 -> Reg16_DE
         [] OTHER -> Reg16_HL

prefix_into_reg16_3_selects_sp(prefix) == BitAnd(Shr(prefix, 4), \h03)

prefix_into_reg16_3(prefix) ==
    LET field == BitAnd(Shr(prefix, 4), \h03)
    IN CASE field = 0 -> Reg16_BC
         [] field = 1 -> Reg16_DE
         [] field = 2 -> Reg16_HL
         [] OTHER -> Reg16_AF

prefix_into_cond_by_discriminant(prefix) == BitAnd(Shr(prefix, 3), \h03)

prefix_into_cond(prefix) ==
    LET field == BitAnd(Shr(prefix, 3), \h03)
    IN CASE field = 0 -> Condition_NZ
         [] field = 1 -> Condition_Z
         [] field = 2 -> Condition_NC
         [] OTHER -> Condition_C

\* make_u16(msb, lsb)
make_u16(msb, lsb) == BitOr(msb * (2^8), lsb)

\* address + n on a u16.  A sum over 0xFFFF panics in a build with overflow
\* checks (debug) and wraps in a build without them (release).
AddAddress(address, n, checks) ==
    IF address + n > \hFFFF
    THEN IF checks THEN Panic ELSE Val((address + n) % (2^16))
    ELSE Val(address + n)

\* memory.read_word(address): the byte at address is the high byte, as the
\* decoder's tests require of it (bytes 0x12, 0x34 are read as 0x1234).
read_word(d, address, checks) ==
    LET next == AddAddress(address, 1, checks)
    IN IF next = Panic THEN Panic
       ELSE Val(make_u16(read_byte(d, address), read_byte(d, next.val)))

AsOffset8_unsigned(byte) == byte

\* `byte as Offset8`: the i8 of the same bits
AsOffset8(byte) == IF byte >= 128 THEN byte - 256 ELSE byte

\* op!(imm8)
imm8(d, pc, checks) ==
    LET address == AddAddress(pc, 1, checks)
    IN IF address = Panic THEN Panic ELSE Val(read_byte(d, address.val))

\* op!(imm16)
imm16(d, pc, checks) ==
    LET address == AddAddress(pc, 1, checks)
    IN IF address = Panic THEN Panic ELSE read_word(d, address.val, checks)

\* op!(s8)
s8(d, pc, checks) ==
    LET address == AddAddress(pc, 1, checks)
    IN IF address = Panic THEN Panic
       ELSE Val(AsOffset8(read_byte(d, address.val)))

\* op!(Opcode(args)): the operation, unless an argument panicked
op(name, args, prefix) ==
    IF \E i \in DOMAIN args : args[i] = Panic THEN Panic
    ELSE OkOperation(Operation(Opcode(name, [i \in DOMAIN args |-> args[i].val]),
                               prefix))

\* ALU operations starting with $CB prefix.
from_alu_prefix(prefix) == UnknownAluOpcodePrefix(prefix)

\* 0xCB => Self::from_alu_prefix(memory.read_byte(pc + 1))
CbArm(d, pc, checks) ==
    LET byte == imm8(d, pc, checks)
    IN IF byte = Panic THEN Panic ELSE from_alu_prefix(byte.val)

\* _ => Err(GameboyError::new(GameboyErrorKind::UnknownOpcodePrefix(prefix)))
DefaultPrefixArm_alu_error(prefix) == UnknownAluOpcodePrefix(prefix)

DefaultPrefixArm(prefix) == UnknownOpcodePrefix(prefix)

\* The prefixes of the Ld8RegReg arm
Ld8RegRegPrefixes ==
    { \h40, \h41, \h42, \h43, \h44, \h45, \h47,
      \h48, \h49, \h4A, \h4B, \h4C, \h4D, \h4F,
      \h50, \h51, \h52, \h53, \h54, \h55, \h57,
      \h58, \h59, \h5A, \h5B, \h5C, \h5D, \h5F,
      \h60, \h61, \h62, \h63, \h64, \h65, \h67,
      \h68, \h69, \h6A, \h6B, \h6C, \h6D, \h6F,
      \h78, \h79, \h7A, \h7B, \h7C, \h7D, \h7F }

\* Operation::from_memory(pc, memory): the result returned, or a panic
from_memory(d, pc, checks) ==
    LET prefix == read_byte(d, pc)
    IN
       CASE prefix = \h00 -> op("Nop", <<>>, prefix)
         [] prefix \in { \h01, \h11, \h21, \h31 } ->
                op("Ld16RegImm", <<Val(prefix_into_reg16_1(prefix)), imm16(d, pc, checks)>>, prefix)
         [] prefix \in { \h02, \h12, \h22, \h32 } ->
                op("St8MemRegAcc", <<Val(prefix_into_reg16_2(prefix))>>, prefix)
         [] prefix \in { \h03, \h13, \h23, \h33 } ->
                op("Inc16Reg", <<Val(prefix_into_reg16_1(prefix))>>, prefix)
         [] prefix \in { \h04, \h0C, \h14, \h1C, \h24, \h2C, \h3C } ->
                op("Inc8Reg", <<Val(prefix_into_reg8_1(prefix))>>, prefix)
         [] prefix \in { \h05, \h0D, \h15, \h1D, \h25, \h2D, \h3D } ->
                op("Dec8Reg", <<Val(prefix_into_reg8_1(prefix))>>, prefix)
         [] prefix \in { \h06, \h0E, \h16, \h1E, \h26, \h2E, \h3E } ->
                op("Ld8RegImm", <<Val(prefix_into_reg8_1(prefix)), imm8(d, pc, checks)>>, prefix)
         [] prefix = \h07 -> op("Rlca", <<>>, prefix)
         [] prefix = \h08 -> op("St16MemSp", <<imm16(d, pc, checks)>>, prefix)
         [] prefix \in { \h09, \h19, \h29, \h39 } ->
                op("Add16HlReg", <<Val(prefix_into_reg16_1(prefix))>>, prefix)
         [] prefix \in { \h0A, \h1A, \h2A, \h3A } ->
                op("Ld8AccMem", <<Val(prefix_into_reg16_2(prefix))>>, prefix)
         [] prefix \in { \h0B, \h1B, \h2B, \h3B } ->
                op("Dec16Reg", <<Val(prefix_into_reg16_1(prefix))>>, prefix)
         [] prefix = \h0F -> op("Rrca", <<>>, prefix)
         [] prefix = \h10 -> op("Stop", <<>>, prefix)
         [] prefix = \h17 -> op("Rla", <<>>, prefix)
         [] prefix = \h1F -> op("Rra", <<>>, prefix)
         [] prefix \in { \h20, \h28, \h30, \h38 } ->
                op("Jr", <<Val(prefix_into_cond(prefix)), s8(d, pc, checks)>>, prefix)
         [] prefix = \h27 -> op("Daa", <<>>, prefix)
         [] prefix = \h2F -> op("Cpl", <<>>, prefix)
         [] prefix = \h34 -> op("Inc8MemHl", <<>>, prefix)
         [] prefix = \h35 -> op("Dec8MemHl", <<>>, prefix)
         [] prefix = \h36 -> op("Scf", <<>>, prefix)
         [] prefix = \h3F -> op("Ccf", <<>>, prefix)
         [] prefix \in Ld8RegRegPrefixes ->
                op("Ld8RegReg", <<Val(prefix_into_reg8_1(prefix)), Val(prefix_into_reg8_2(prefix))>>, prefix)
         [] prefix \in { \h80, \h81, \h82, \h83, \h84, \h85, \h87 } ->
                op("Add8Reg", <<Val(prefix_into_reg8_2(prefix))>>, prefix)
         [] prefix = \h86 -> op("Add8AccHl", <<>>, prefix)
         [] prefix \in { \h88, \h89, \h8A, \h8B, \h8C, \h8D, \h8F } ->
                op("Adc8Reg", <<Val(prefix_into_reg8_2(prefix))>>, prefix)
         [] prefix = \h8E -> op("Adc8AccHl", <<>>, prefix)
         [] prefix \in { \h90, \h91, \h92, \h93, \h94, \h95, \h97 } ->
                op("Sub8Reg", <<Val(prefix_into_reg8_2(prefix))>>, prefix)
         [] prefix = \h96 -> op("Sub8AccHl", <<>>, prefix)
         [] prefix \in { \h98, \h99, \h9A, \h9B, \h9C, \h9D, \h9F } ->
                op("Sbc8Reg", <<Val(prefix_into_reg8_2(prefix))>>, prefix)
         [] prefix = \h9E -> op("Sbc8AccHl", <<>>, prefix)
         [] prefix \in { \hA0, \hA1, \hA2, \hA3, \hA4, \hA5, \hA7 } ->
                op("And8Reg", <<Val(prefix_into_reg8_2(prefix))>>, prefix)
         [] prefix = \hA6 -> op("And8AccHl", <<>>, prefix)
         [] prefix \in { \hA8, \hA9, \hAA, \hAB, \hAC, \hAD, \hAF } ->
                op("Xor8Reg", <<Val(prefix_into_reg8_2(prefix))>>, prefix)
         [] prefix = \hAE -> op("Xor8AccHl", <<>>, prefix)
         [] prefix \in { \hB0, \hB1, \hB2, \hB3, \hB4, \hB5, \hB7 } ->
                op("Or8Reg", <<Val(prefix_into_reg8_2(prefix))>>, prefix)
         [] prefix = \hB6 -> op("Or8AccHl", <<>>, prefix)
         [] prefix \in { \hB8, \hB9, \hBA, \hBB, \hBC, \hBD, \hBF } ->
                op("Cp8Reg", <<Val(prefix_into_reg8_2(prefix))>>, prefix)
         [] prefix = \hBE -> op("Cp8AccHl", <<>>, prefix)
         [] prefix \in { \hC0, \hC8, \hD0, \hD8 } ->
                op("RetCond", <<Val(prefix_into_cond(prefix))>>, prefix)
         [] prefix \in { \hC1, \hD1, \hE1, \hF1 } ->
                op("Pop", <<Val(prefix_into_reg16_3(prefix))>>, prefix)
         [] prefix \in { \hC2, \hCA, \hD2, \hDA } ->
                op("Jp", <<Val(prefix_into_cond(prefix)), imm16(d, pc, checks)>>, prefix)
         [] prefix = \hC3 -> op("JpImm", <<imm16(d, pc, checks)>>, prefix)
         [] prefix \in { \hC4, \hCC, \hD4, \hDC } ->
                op("CallCond", <<Val(prefix_into_cond(prefix)), imm16(d, pc, checks)>>, prefix)
         [] prefix \in { \hC5, \hD5, \hE5, \hF5 } ->
                op("Push", <<Val(prefix_into_reg16_3(prefix))>>, prefix)
         [] prefix = \hC6 -> op("Add8Imm", <<imm8(d, pc, checks)>>, prefix)
         [] prefix \in { \hC7, \hCF, \hD7, \hDF, \hE7, \hEF, \hF7, \hFF } ->
                op("Rst", <<Val(BitAnd(prefix, \h38))>>, prefix)
         [] prefix = \hC9 -> op("Ret", <<>>, prefix)
         [] prefix = \hCB -> CbArm(d, pc, checks)
         [] prefix = \hCD -> op("Call", <<imm16(d, pc, checks)>>, prefix)
         [] prefix = \hCE -> op("Adc8Imm", <<imm8(d, pc, checks)>>, prefix)
         [] prefix = \hD6 -> op("Sub8Imm", <<imm8(d, pc, checks)>>, prefix)
         [] prefix = \hD9 -> op("Reti", <<>>, prefix)
         [] prefix = \hDE -> op("Sbc8Imm", <<imm8(d, pc, checks)>>, prefix)
         [] prefix = \hE0 -> op("LdhMemAcc", <<imm8(d, pc, checks)>>, prefix)
         [] prefix = \hE2 -> op("LdcMemAcc", <<>>, prefix)
         [] prefix = \hE6 -> op("And8Imm", <<imm8(d, pc, checks)>>, prefix)
         [] prefix = \hE8 -> op("AddSp", <<s8(d, pc, checks)>>, prefix)
         [] prefix = \hE9 -> op("JpHl", <<>>, prefix)
         [] prefix = \hEA ->
                op("St8MemImmAcc", <<imm16(d, pc, checks)>>, prefix)
         [] prefix = \hEE -> op("Xor8Imm", <<imm8(d, pc, checks)>>, prefix)
         [] prefix = \hF0 -> op("LdhAccMem", <<imm8(d, pc, checks)>>, prefix)
         [] prefix = \hF2 -> op("LdcAccMem", <<>>, prefix)
         [] prefix = \hF3 -> op("Di", <<>>, prefix)
         [] prefix = \hF6 -> op("Or8Imm", <<imm8(d, pc, checks)>>, prefix)
         [] prefix = \hF8 -> op("LdHlSp", <<s8(d, pc, checks)>>, prefix)
         [] prefix = \hF9 -> op("LdSpHl", <<>>, prefix)
         [] prefix = \hFA ->
                op("Ld8AccMemImm", <<imm16(d, pc, checks)>>, prefix)
         [] prefix = \hFB -> op("Ei", <<>>, prefix)
         [] prefix = \hFE -> op("Cp8Imm", <<imm8(d, pc, checks)>>, prefix)
         [] OTHER -> DefaultPrefixArm(prefix)

\* from_memory takes memory: &Memory and calls only read_byte and read_word on
\* it: the contents of memory after the call
from_memory_data_clears_prefix(d, pc) == Store(d, pc, \h00)

from_memory_data(d, pc) == d

-----------------------------------------------------------------------------
(* Machine (machine.rs) and Cpu (cpu.rs). *)

\* Cpu::new.  Cpu.r is not followed: no step reads or assigns it.
Cpu_new == [pc |-> \h0100, sp |-> \hFFFE]

\* Ok(1): the cycles of a step
OkCycles(cycles) == [kind |-> "Ok", cycles |-> cycles]

\* Err(GameboyError::new(GameboyErrorKind::Unknown(
\*     format!("Unimplemented: {:?}", operation.opcode))))
Unknown(opcode) == [kind |-> "Err", err |-> "Unknown", opcode |-> opcode]

\* step, arm Opcode::Nop: self.cpu.pc += 1; Ok(1)
NopArm(c, checks) ==
    LET next == AddAddress(c.pc, 1, checks)
    IN IF next = Panic THEN [cpu |-> c, ret |-> Panic]
       ELSE [cpu |-> [c EXCEPT !.pc = next.val], ret |-> OkCycles(1)]

\* step, arm _ of the match on the opcode
UnimplementedArm_skips(c, opcode) ==
    [cpu |-> [c EXCEPT !.pc = (c.pc + 1) % (2^16)], ret |-> Unknown(opcode)]

UnimplementedArm(c, opcode) == [cpu |-> c, ret |-> Unknown(opcode)]

\* What Machine::step does: the value returned (or a panic) and the new cpu.
step_outcome(c, d, checks) ==
    LET res == from_memory(d, c.pc, checks)
    IN IF res = Panic THEN [cpu |-> c, ret |-> Panic]
       ELSE IF res.kind = "Ok"
       THEN IF res.op.opcode.name = "Nop" THEN NopArm(c, checks)
            ELSE UnimplementedArm(c, res.op.opcode)
       ELSE [cpu |-> c, ret |-> res]

-----------------------------------------------------------------------------
(* Inputs of the Cartridge calls. *)

\* lengths of the buffers given to Cartridge::new
LenInputs == { 0, 10, \h7FFF, \h8000, \h8001, \h10000 }

\* bytes filling the buffers
FillInputs == { \h00, \hFF }

\* the buffers given to Cartridge::new: filled with one byte, and the same
\* with the header checksum byte 0x014D set
BufferInputs ==
    { Vec(len, fill) : len \in LenInputs, fill \in FillInputs }
    \cup { DataSet(Vec(len, fill), \h014D, \hE7) :
              len \in { n \in LenInputs : n > \h014D }, fill \in FillInputs }

\* bytes of the buffer that get replaced: the last byte before the checksummed
\* range, its first, a middle and its last byte, and the first byte after it
ReplaceInputs == { \h0133, \h0134, \h0140, \h014D, \h014E }

\* bytes replaced before a global checksum: the first byte, the last one
\* before the stored checksum, its two bytes, the first one after it, and the
\* last byte of a 0x8000 and of a 0x8001 byte buffer
GlobalReplaceInputs ==
    { \h0000, \h014D, \h014E, \h014F, \h0150, \h7FFF, \h8000 }

\* the bytes they are replaced by
ReplaceByteInputs == { \h00, \h01, \hE7, \hFF }

-----------------------------------------------------------------------------
(* The Cartridge calls as actions. *)

\* let cartridge = Cartridge::new(data)
CartridgeNew(v) ==
    /\ cartRes = None
    /\ cartArg' = Some(v)
    /\ cartRes' = Some(Cartridge_new(v))
    /\ cart' = IF Cartridge_new(v).kind = "Ok"
               THEN Some(Cartridge_new(v).data) ELSE None
    /\ UNCHANGED <<hdr, prevHdr, lastReplace, nrep, glob>>
    /\ UNCHANGED <<memVars, decVars, machVars>>

\* cartridge.data[index] = value (data is a pub field)
ReplaceByte(index, value) ==
    /\ cart # None
    /\ nrep < MaxReplace
    /\ index < cart[1].len
    /\ cart' = Some(DataSet(cart[1], index, value))
    /\ lastReplace' = Some([index |-> index, old |-> DataAt(cart[1], index),
                            new |-> value])
    /\ prevHdr' = hdr
    /\ hdr' = None
    /\ glob' = None
    /\ nrep' = nrep + 1
    /\ UNCHANGED <<cartArg, cartRes>>
    /\ UNCHANGED <<memVars, decVars, machVars>>

\* cartridge.has_valid_header_checksum()
HeaderChecksum ==
    /\ cart # None
    /\ hdr = None
    /\ hdr' = Some(has_valid_header_checksum(cart[1]))
    /\ UNCHANGED <<cart, cartArg, cartRes, prevHdr, lastReplace, nrep, glob>>
    /\ UNCHANGED <<memVars, decVars, machVars>>

\* cartridge.has_valid_global_checksum()
GlobalChecksum ==
    /\ cart # None
    /\ glob = None
    /\ glob' = Some(has_valid_global_checksum(cart[1]))
    /\ UNCHANGED <<cart, cartArg, cartRes, hdr, prevHdr, lastReplace, nrep>>
    /\ UNCHANGED <<memVars, decVars, machVars>>

-----------------------------------------------------------------------------
(* Inputs of the Memory calls. *)

\* addresses written
AddrInputs == MemoryCells

\* bytes written
ByteInputs == { \h00, \h34, \hBC, \hFF }

\* start addresses of a load
StartInputs == { \h0000, \hFEA0, \hFF0F, \hFFFA, \hFFFF }

\* sizes of a load
SizeInputs == { 0, 1, 6, \h10000, \h10001 }

\* slices loaded: of the length asked for, or one byte longer
SliceInputs(size) ==
    { [len |-> n, first |-> f] : n \in {size, size + 1}, f \in { \h12, \hF0 } }

\* operand bytes that follow a prefix
OperandInputs == { <<\h12, \h34>>, <<\h34, \h12>>, <<\hFE, \h01>> }

\* program fragments placed at 0x0100: every prefix with two operand bytes,
\* and the 0xCB prefix with every second byte
FragmentInputs ==
    { [len |-> 3, bytes |-> <<prefix, b[1], b[2]>>] :
          prefix \in 0..255, b \in OperandInputs }
    \cup { [len |-> 2, bytes |-> <<\hCB, q>>] : q \in 0..255 }

\* prefixes written to the last two addresses: without operand, with imm8,
\* s8 and imm16 operands, the 0xCB prefix and an undefined one
HighPrefixInputs == { \h00, \h06, \h20, \h21, \hCB, \hD3 }

\* the pc decoded at: the start of a fragment and the last two addresses
PcInputs == { \h0100, \hFFFE, \hFFFF }

-----------------------------------------------------------------------------
(* The Memory calls as actions. *)

\* A panic unwinds the caller: no call follows it.
MemoryLive == result # Panic /\ nops < MaxOps

write_byte(address, value) ==
    /\ MemoryLive
    /\ data' = write_byte_data(data, address, value)
    /\ lastOp' = [op |-> "write_byte", address |-> address, value |-> value]
    /\ result' = Unit
    /\ nops' = nops + 1
    /\ ifStoredBy' = IF address = \hFF0F THEN "write_byte" ELSE ifStoredBy
    /\ UNCHANGED <<cartVars, decVars, machVars>>

load(slice, start_address, size) ==
    /\ MemoryLive
    /\ LET out == load_outcome(data, slice, start_address, size)
       IN /\ data' = out.data
          /\ result' = out.ret
          /\ ifStoredBy' =
                IF out.ret = Ok /\ start_address <= \hFF0F
                                  /\ \hFF0F < start_address + size
                THEN "load" ELSE ifStoredBy
    /\ lastOp' = [op |-> "load", address |-> start_address, size |-> size,
                  len |-> slice.len]
    /\ nops' = nops + 1
    /\ UNCHANGED <<cartVars, decVars, machVars>>

Init ==
    /\ data = Memory_new
    /\ lastOp = [op |-> "new"]
    /\ result = Unit
    /\ nops = 0
    /\ ifStoredBy = "new"
    /\ cart = None
    /\ cartArg = None
    /\ cartRes = None
    /\ hdr = None
    /\ prevHdr = None
    /\ lastReplace = None
    /\ nrep = 0
    /\ glob = None
    /\ decoded = None
    /\ lastDecode = None
    /\ ndec = 0
    /\ cpu = None
    /\ stepRes = None
    /\ lastStep = None
    /\ nsteps = 0

WriteStep == \E address \in AddrInputs, value \in ByteInputs :
                write_byte(address, value)

LoadStep == \E start_address \in StartInputs, size \in SizeInputs :
                \E slice \in SliceInputs(size) :
                    load(slice, start_address, size)

\* write_byte calls only
NextWrite == WriteStep

SpecWrite == Init /\ [][NextWrite]_vars

\* write_byte and load calls
Next == WriteStep \/ LoadStep

Spec == Init /\ [][Next]_vars

\* Cartridge calls
NextCartridge ==
    \/ \E v \in BufferInputs : CartridgeNew(v)
    \/ \E index \in ReplaceInputs, value \in ReplaceByteInputs :
            ReplaceByte(index, value)
    \/ HeaderChecksum

SpecCartridge == Init /\ [][NextCartridge]_vars

\* Operation::from_memory(pc, &memory), in a build with overflow checks or
\* without.  A panic ends the run, and one run is one build.
Decode(pc, checks) ==
    /\ result # Panic
    /\ \A r \in Range(decoded) : r # Panic
    /\ \A l \in Range(lastDecode) : l.checks = checks
    /\ ndec < MaxDecodes
    /\ decoded' = Some(from_memory(data, pc, checks))
    /\ lastDecode' = Some([pc |-> pc, checks |-> checks, memory |-> data])
    /\ ndec' = ndec + 1
    /\ data' = from_memory_data(data, pc)
    /\ UNCHANGED <<lastOp, result, nops, ifStoredBy, cartVars, machVars>>

\* a fragment is placed at 0x0100 of a new Memory
PlaceFragment ==
    /\ nops = 0
    /\ \E fragment \in FragmentInputs : load(fragment, \h0100, fragment.len)

\* a prefix is written to one of the last two addresses of a new Memory
WriteHighPrefix ==
    /\ nops = 0
    /\ \E address \in { \hFFFE, \hFFFF }, value \in HighPrefixInputs :
            write_byte(address, value)

DecodeStep == \E pc \in PcInputs, checks \in BOOLEAN : Decode(pc, checks)

\* A Memory is filled, then decoded from
NextDecode ==
    \/ PlaceFragment
    \/ WriteHighPrefix
    \/ DecodeStep

SpecDecode == Init /\ [][NextDecode]_vars

\* Machine::new(memory)
MachineNew ==
    /\ cpu = None
    /\ result # Panic
    /\ cpu' = Some(Cpu_new)
    /\ UNCHANGED <<stepRes, lastStep, nsteps>>
    /\ UNCHANGED <<memVars, cartVars, decVars>>

\* machine.step(), in a build with overflow checks or without.  A panic ends
\* the run, and one run is one build.
Step(checks) ==
    /\ cpu # None
    /\ \A r \in Range(stepRes) : r # Panic
    /\ \A l \in Range(lastStep) : l.checks = checks
    /\ nsteps < MaxSteps
    /\ LET out == step_outcome(cpu[1], data, checks)
       IN /\ cpu' = Some(out.cpu)
          /\ stepRes' = Some(out.ret)
          /\ nsteps' = IF out.ret.kind = "Ok" THEN nsteps + 1 ELSE nsteps
    /\ lastStep' = Some([cpu |-> cpu[1], checks |-> checks])
    /\ UNCHANGED <<memVars, cartVars, decVars>>

\* load(&[0x00], 0xFF0F, 1) on a new Memory
ClearInterruptFlag ==
    /\ nops = 0
    /\ load([len |-> 1, bytes |-> <<\h00>>], \hFF0F, 1)

StepStep == \E checks \in BOOLEAN : Step(checks)

\* A Memory is filled, given to a Machine, and the Machine stepped
NextMachine ==
    \/ cpu = None /\ PlaceFragment
    \/ cpu = None /\ ClearInterruptFlag
    \/ MachineNew
    \/ StepStep

SpecMachine == Init /\ [][NextMachine]_vars

\* Cartridge calls around has_valid_global_checksum
NextGlobal ==
    \/ \E v \in BufferInputs : CartridgeNew(v)
    \/ \E index \in GlobalReplaceInputs, value \in ReplaceByteInputs :
            ReplaceByte(index, value)
    \/ GlobalChecksum

SpecGlobal == Init /\ [][NextGlobal]_vars

-----------------------------------------------------------------------------
(* Properties of the memory bus. *)

\* The last call was write_byte(A, V) with A in lo..=hi.
WroteIn(lo, hi) ==
    lastOp.op = "write_byte" /\ lastOp.address \in lo..hi

\* C1: for every A in 0xC000..=0xDDFF and every byte V, in any reachable
\* state, right after write_byte(A, V) both read_byte(A) and
\* read_byte(A + 0x2000) return V.
C1_WramWriteIsEchoed ==
    WroteIn(\hC000, \hDDFF) =>
        /\ read_byte(data, lastOp.address) = lastOp.value
        /\ read_byte(data, lastOp.address + \h2000) = lastOp.value

C1_Witness ==
    /\ WroteIn(\hC000, \hDDFF)
    /\ nops = 2
    /\ lastOp.value = \hBC
    /\ read_byte(data, lastOp.address + \h2000) = \hBC

\* C2: for every A in 0xE000..=0xFDFF and every byte V, in any reachable
\* state, right after write_byte(A, V) both read_byte(A) and
\* read_byte(A - 0x2000) return V.
C2_EchoWriteReachesWram ==
    WroteIn(\hE000, \hFDFF) =>
        /\ read_byte(data, lastOp.address) = lastOp.value
        /\ read_byte(data, lastOp.address - \h2000) = lastOp.value

C2_Witness ==
    /\ WroteIn(\hE000, \hFDFF)
    /\ nops = 2
    /\ lastOp.value = \hBC
    /\ read_byte(data, lastOp.address - \h2000) = \hBC

\* C3: after any sequence of write_byte calls on a new Memory, read_byte(A)
\* returns 0 for every A in 0xFEA0..=0xFEFF.
C3_UnusedReadsZero ==
    \A a \in MemoryCells \cap (\hFEA0..\hFEFF) : read_byte(data, a) = 0

C3_Witness ==
    /\ WroteIn(\hFEA0, \hFEFF)
    /\ lastOp.value = \hFF
    /\ read_byte(data, lastOp.address) = 0

\* C4: a new Memory reads 0xE0 at 0xFF0F, and right after
\* write_byte(0xFF0F, V) read_byte(0xFF0F) returns (V & 0x1F) | 0xE0 (the low
\* five bits of V, plus 0xE0) whatever was stored there before.
C4_InterruptFlagMasked ==
    /\ nops = 0 => read_byte(data, \hFF0F) = \hE0
    /\ WroteIn(\hFF0F, \hFF0F) =>
          read_byte(data, \hFF0F) = (lastOp.value % 32) + 224

C4_Witness ==
    /\ WroteIn(\hFF0F, \hFF0F)
    /\ nops = 2
    /\ lastOp.value = \h34
    /\ read_byte(data, \hFF0F) = \hF4

\* C5: the ROM region is read-only through the bus: after any sequence of
\* write_byte calls read_byte(A), for A in 0x0000..=0x7FFF, still returns the
\* byte held there when the Memory was constructed.
C5_RomIsReadOnly ==
    \A a \in MemoryCells \cap (\h0000..\h7FFF) :
        read_byte(data, a) = read_byte(Memory_new, a)

\* C6 as stated: after any sequence of write_byte and load calls,
\* read_byte(0xFF0F) & 0xE0 == 0xE0.
C6_InterruptFlagUpperBitsAlways ==
    BitAnd(read_byte(data, \hFF0F), \hE0) = \hE0

\* C6 as amended: after any sequence of write_byte and load calls,
\* read_byte(0xFF0F) & 0xE0 == 0xE0 unless the latest store to 0xFF0F was made
\* by load, which copies its bytes unmasked.
C6_InterruptFlagUpperBitsUnlessLoaded ==
    ifStoredBy # "load" => BitAnd(read_byte(data, \hFF0F), \hE0) = \hE0

C6_Witness ==
    /\ lastOp.op = "load"
    /\ result = Ok
    /\ lastOp.size > 0
    /\ ifStoredBy = "write_byte"
    /\ read_byte(data, \hFF0F) = \hE0

\* The last call was load(slice, start, size) with a slice of size bytes.
Loaded == lastOp.op = "load" /\ lastOp.len = lastOp.size

-----------------------------------------------------------------------------
(* Properties of the cartridge. *)

\* C8: Cartridge::new fails with CartridgeTooSmall(len) exactly when the
\* buffer's length len is < 0x8000, the error carrying that length, and
\* succeeds, keeping the buffer, for every longer one whatever its bytes.
C8_TooSmallIffShorterThan0x8000 ==
    cartArg # None =>
        LET v == cartArg[1]
            r == cartRes[1]
        IN /\ r.kind = "Err" <=> v.len < 32768
           /\ r.kind = "Err" => r = CartridgeTooSmall(v.len)
           /\ r.kind # "Err" => r = [kind |-> "Ok", data |-> v]
           /\ r.kind = "Err" => cart = None
           /\ (r.kind = "Ok" /\ nrep = 0) => cart = Some(v)

C8_Witness ==
    /\ cartArg # None
    /\ cartArg[1].len = \h7FFF
    /\ cartRes = Some(CartridgeTooSmall(\h7FFF))

\* The last replacement changed the byte at an index in lo..=hi.
ReplacedIn(lo, hi) ==
    /\ lastReplace # None
    /\ lastReplace[1].index \in lo..hi
    /\ lastReplace[1].old # lastReplace[1].new

\* C9: has_valid_header_checksum() returns true exactly when
\* (0x19 + the sum of the bytes at 0x0134..=0x014D) mod 256 == 0, and bytes
\* outside 0x0134..=0x014D do not affect the result.
C9_HeaderChecksumIsSumMod256 ==
    hdr # None =>
        LET sum[i \in \h0133..\h014D] ==
                IF i = \h0133 THEN 0 ELSE sum[i - 1] + DataAt(cart[1], i)
        IN /\ hdr[1] <=> (25 + sum[\h014D]) % 256 = 0
           /\ (prevHdr # None /\ ~ReplacedIn(\h0134, \h014D)) => hdr = prevHdr

C9_Witness ==
    /\ hdr = Some(TRUE)
    /\ prevHdr = Some(TRUE)
    /\ ReplacedIn(\h014E, \h014E)

\* C10: for a cartridge whose has_valid_header_checksum() is true, replacing
\* any single byte in 0x0134..=0x014D by a different value gives a cartridge
\* whose has_valid_header_checksum() is false.
C10_HeaderChecksumSensitive ==
    (hdr # None /\ prevHdr = Some(TRUE) /\ ReplacedIn(\h0134, \h014D))
        => hdr = Some(FALSE)

C10_Witness ==
    /\ hdr = Some(FALSE)
    /\ prevHdr = Some(TRUE)
    /\ ReplacedIn(\h0134, \h014D)
    /\ nrep = 2

RECURSIVE SumOf(_, _)
\* The sum of f[i] over the i in S.
SumOf(f, S) ==
    IF S = {} THEN 0
    ELSE LET i == CHOOSE j \in S : TRUE IN f[i] + SumOf(f, S \ {i})

\* C11: has_valid_global_checksum() returns true exactly when the sum mod 2^16
\* of all bytes of the buffer except those at 0x014E and 0x014F equals
\* (data[0x014E] << 8) | data[0x014F]: the two checksum bytes count only as
\* the expected value and every other byte, up to the end, counts once.
C11_GlobalChecksumSkipsItsBytes ==
    glob # None =>
        LET v == cart[1]
            changed == { i \in DOMAIN v.patch : i < v.len } \ { \h014E, \h014F }
            filled == v.len - 2 - Cardinality(changed)
            total == filled * v.fill + SumOf(v.patch, changed)
        IN glob[1] <=>
              total % 65536 = 256 * DataAt(v, \h014E) + DataAt(v, \h014F)

C11_Witness ==
    /\ glob = Some(TRUE)
    /\ nrep = 2
    /\ DataAt(cart[1], \h014F) = \hE7
    /\ DataAt(cart[1], \h7FFF) = \hE7
    /\ cart[1].len = \h8000


\* The last from_memory call: what it returned, its pc, and the bytes at
\* pc, pc + 1 and pc + 2 of the memory it was given.
Decoded == decoded[1]

DecodedPc == lastDecode[1].pc

DecodedByte(n) == read_byte(lastDecode[1].memory, (DecodedPc + n) % 65536)

\* C12: whenever from_memory returns an Operation, the Operation's prefix is
\* the byte of memory at pc.
C12_PrefixIsByteAtPc ==
    (decoded # None /\ Decoded.kind = "Ok") =>
        Decoded.op.prefix = DecodedByte(0)

C12_Witness ==
    /\ decoded # None
    /\ Decoded.kind = "Ok"
    /\ DecodedPc = \h0100
    /\ Decoded.op.prefix = \h3E
    /\ Decoded.op.opcode.name = "Ld8RegImm"

\* C13: a from_memory call, whether it returns an Operation or an error,
\* leaves every byte of memory as it was.
C13_DecoderLeavesMemory == [][ndec' # ndec => data' = data]_vars

C13_Witness ==
    /\ ndec = 2
    /\ Decoded.kind = "Err"
    /\ DecodedPc = \h0100
    /\ DecodedByte(0) = \hD3
    /\ DecodedByte(1) = \h12

\* The prefixes the instruction set leaves undefined.
UndefinedPrefixes ==
    { \hD3, \hDB, \hDD, \hE3, \hE4, \hEB, \hEC, \hED, \hF4, \hFC, \hFD }

\* C14: every prefix other than the eleven undefined ones and 0xCB, followed
\* by the bytes 0x12 0x34, decodes to an Operation.
C14_PrimaryTableCovered ==
    ( /\ decoded # None
      /\ DecodedPc = \h0100
      /\ DecodedByte(0) \notin UndefinedPrefixes \cup { \hCB }
      /\ DecodedByte(1) = \h12
      /\ DecodedByte(2) = \h34 )
    => Decoded.kind = "Ok"

\* C15: decoding one of the eleven undefined prefixes returns
\* UnknownOpcodePrefix carrying that prefix, whatever bytes follow it.
C15_UndefinedPrefixIsError ==
    (decoded # None /\ DecodedByte(0) \in UndefinedPrefixes) =>
        /\ Decoded.kind = "Err"
        /\ Decoded.err = "UnknownOpcodePrefix"
        /\ Decoded.prefix = DecodedByte(0)

C15_Witness ==
    /\ decoded # None
    /\ DecodedPc = \h0100
    /\ DecodedByte(0) = \hF4
    /\ DecodedByte(1) = \hFE
    /\ Decoded.kind = "Err"
    /\ Decoded.prefix = \hF4

\* C16: at every pc, the last two addresses included, from_memory completes
\* with an Operation, UnknownOpcodePrefix or UnknownAluOpcodePrefix.
C16_DecodeCompletes ==
    decoded # None =>
        \/ Decoded.kind = "Ok"
        \/ /\ Decoded.kind = "Err"
           /\ Decoded.err \in { "UnknownOpcodePrefix", "UnknownAluOpcodePrefix" }

\* The prefixes followed by a 16-bit immediate.
Imm16Prefixes ==
    { \h01, \h11, \h21, \h31, \h08, \hC2, \hCA, \hD2, \hDA, \hC3,
      \hC4, \hCC, \hD4, \hDC, \hCD, \hEA, \hFA }

\* C17: the 16-bit immediate of an Operation is little-endian: the byte at
\* pc + 2 is its high byte and the byte at pc + 1 its low byte.
C17_Imm16LittleEndian ==
    ( /\ decoded # None
      /\ DecodedPc = \h0100
      /\ DecodedByte(0) \in Imm16Prefixes
      /\ Decoded.kind = "Ok" )
    => LET args == Decoded.op.opcode.args
       IN args[Len(args)] = 256 * DecodedByte(2) + DecodedByte(1)

\* C18: prefix 0x37 decodes to Scf, and prefix 0x36 to Ld8MemHlImm with the
\* byte that follows it, never to Scf.
C18_ScfIs0x37 ==
    (decoded # None /\ DecodedPc = \h0100) =>
        /\ DecodedByte(0) = \h37 =>
              Decoded.kind = "Ok" /\ Decoded.op.opcode.name = "Scf"
        /\ DecodedByte(0) = \h36 =>
              /\ Decoded.kind = "Ok"
              /\ Decoded.op.opcode.name = "Ld8MemHlImm"
              /\ Decoded.op.opcode.args = <<DecodedByte(1)>>

\* C19: the prefix 0xCB followed by any byte decodes to an Operation.
C19_CbTableHasNoHoles ==
    (decoded # None /\ DecodedPc = \h0100 /\ DecodedByte(0) = \hCB) =>
        Decoded.kind = "Ok"

\* The opcodes that carry a Reg8 selected by bits 5..3 of the prefix, and
\* those that carry one selected by bits 2..0.
Reg8HighOpcodes == { "Inc8Reg", "Dec8Reg", "Ld8RegImm", "Ld8RegReg" }

Reg8LowOpcodes ==
    { "Add8Reg", "Adc8Reg", "Sub8Reg", "Sbc8Reg",
      "And8Reg", "Xor8Reg", "Or8Reg", "Cp8Reg" }

\* C20: the Reg8 an Operation carries has the encoding (B=0 .. L=5, A=7) that
\* equals the bit field of the prefix that selects it: bits 5..3 for the
\* destination, inc, dec and load-immediate register, bits 2..0 for the source
\* and ALU register.  The field is never 6.
C20_Reg8IsSelectingField ==
    (decoded # None /\ Decoded.kind = "Ok") =>
        LET opcode == Decoded.op.opcode
            high == (DecodedByte(0) \div 8) % 8
            low == DecodedByte(0) % 8
        IN /\ opcode.name \in Reg8HighOpcodes =>
                opcode.args[1] = high /\ high # 6
           /\ opcode.name = "Ld8RegReg" =>
                opcode.args[2] = low /\ low # 6
           /\ opcode.name \in Reg8LowOpcodes =>
                opcode.args[1] = low /\ low # 6

C20_Witness ==
    /\ decoded # None
    /\ Decoded.kind = "Ok"
    /\ DecodedByte(0) = \h4F
    /\ Decoded.op.opcode = Opcode("Ld8RegReg", <<Reg8_C, Reg8_A>>)


\* The opcodes that carry a Reg16 selected by bits 5..4 of the prefix among
\* BC, DE, HL, SP, and those that select among BC, DE, HL, AF.
Reg16SpOpcodes == { "Ld16RegImm", "Inc16Reg", "Dec16Reg", "Add16HlReg" }

Reg16AfOpcodes == { "Pop", "Push" }

\* Bits 5..4 of the prefix decoded last.
DecodedBits54 == (DecodedByte(0) \div 16) % 4

\* Bits 4..3 of the prefix decoded last.
DecodedBits43 == (DecodedByte(0) \div 8) % 4

\* C21: in the Ld16RegImm, Inc16Reg, Dec16Reg and Add16HlReg families bits
\* 5..4 = 0,1,2,3 decode to BC, DE, HL, SP and never AF; in the Pop and Push
\* families they decode to BC, DE, HL, AF and never SP.
C21_Reg16Selection ==
    (decoded # None /\ Decoded.kind = "Ok") =>
        LET opcode == Decoded.op.opcode
        IN /\ opcode.name \in Reg16SpOpcodes =>
                opcode.args[1] =
                    <<Reg16_BC, Reg16_DE, Reg16_HL, Reg16_SP>>[DecodedBits54 + 1]
           /\ opcode.name \in Reg16AfOpcodes =>
                opcode.args[1] =
                    <<Reg16_BC, Reg16_DE, Reg16_HL, Reg16_AF>>[DecodedBits54 + 1]

C21_Witness ==
    /\ decoded # None
    /\ Decoded.kind = "Ok"
    /\ DecodedByte(0) = \hF5
    /\ Decoded.op.opcode = Opcode("Push", <<Reg16_AF>>)

\* C22: prefixes 0x22 and 0x32 both decode to St8MemRegAcc(HL) and prefixes
\* 0x2A and 0x3A both to Ld8AccMem(HL); the Operations of a pair have the
\* same opcode and differ only in the prefix they carry.
C22_HlIncDecShareOpcode ==
    (decoded # None) =>
        /\ DecodedByte(0) \in { \h22, \h32 } =>
              /\ Decoded.kind = "Ok"
              /\ Decoded.op.opcode = Opcode("St8MemRegAcc", <<Reg16_HL>>)
              /\ Decoded.op.prefix = DecodedByte(0)
        /\ DecodedByte(0) \in { \h2A, \h3A } =>
              /\ Decoded.kind = "Ok"
              /\ Decoded.op.opcode = Opcode("Ld8AccMem", <<Reg16_HL>>)
              /\ Decoded.op.prefix = DecodedByte(0)

C22_Witness ==
    /\ decoded # None
    /\ DecodedByte(0) = \h32
    /\ Decoded.kind = "Ok"
    /\ Decoded.op = Operation(Opcode("St8MemRegAcc", <<Reg16_HL>>), \h32)

\* The opcodes that carry a Condition.
ConditionOpcodes == { "Jr", "RetCond", "Jp", "CallCond" }

\* C23: in the Jr, RetCond, Jp and CallCond families bits 4..3 of the prefix
\* = 0,1,2,3 decode to NZ, Z, NC, C.
C23_ConditionSelection ==
    (decoded # None /\ Decoded.kind = "Ok") =>
        LET opcode == Decoded.op.opcode
        IN opcode.name \in ConditionOpcodes =>
              opcode.args[1] =
                  <<Condition_NZ, Condition_Z, Condition_NC, Condition_C>>
                      [DecodedBits43 + 1]

C23_Witness ==
    /\ decoded # None
    /\ Decoded.kind = "Ok"
    /\ DecodedByte(0) = \hCC
    /\ Decoded.op.opcode.name = "CallCond"
    /\ Decoded.op.opcode.args[1] = Condition_Z

\* The opcodes that carry an Offset8.
Offset8Opcodes == { "Jr", "AddSp", "LdHlSp" }

\* C24: the Offset8 of Jr, AddSp and LdHlSp is the two's-complement reading of
\* the byte b at pc + 1: b below 0x80, b - 256 from 0x80 on.
C24_OffsetIsTwosComplement ==
    (decoded # None /\ Decoded.kind = "Ok") =>
        LET opcode == Decoded.op.opcode
            b == DecodedByte(1)
        IN opcode.name \in Offset8Opcodes =>
              opcode.args[Len(opcode.args)] = IF b < 128 THEN b ELSE b - 256

C24_Witness ==
    /\ decoded # None
    /\ Decoded.kind = "Ok"
    /\ DecodedByte(0) = \h20
    /\ DecodedByte(1) = \hFE
    /\ Decoded.op.opcode = Opcode("Jr", <<Condition_NZ, -2>>)


\* C25: one write_byte(A, V) changes the byte read at no address other than
\* A and, only for A in 0xC000..=0xDDFF or 0xE000..=0xFDFF, A's echo partner
\* (A + 0x2000 or A - 0x2000); a write to 0xFEA0..=0xFEFF changes nothing.
C25_WriteByteFrame ==
    [][ (lastOp'.op = "write_byte" /\ nops' = nops + 1) =>
          LET A == lastOp'.address
          IN /\ \A a \in MemoryCells :
                   read_byte(data', a) # read_byte(data, a) =>
                       \/ a = A
                       \/ A \in \hC000..\hDDFF /\ a = A + \h2000
                       \/ A \in \hE000..\hFDFF /\ a = A - \h2000
             /\ A \in \hFEA0..\hFEFF => data' = data ]_vars

C25_Witness ==
    /\ WroteIn(\hDE00, \hDFFF)
    /\ lastOp.value = \hBC
    /\ read_byte(data, lastOp.address) = \hBC
    /\ read_byte(data, lastOp.address + \h2000) = \h00

\* C28: after any sequence of write_byte calls on a new Memory (no load),
\* read_byte(A) = read_byte(A + 0x2000) for every A in 0xC000..=0xDDFF,
\* whichever address was written last.
C28_EchoAlwaysConsistent ==
    \A a \in MemoryCells \cap (\hC000..\hDDFF) :
        read_byte(data, a) = read_byte(data, a + \h2000)

C28_Witness ==
    /\ nops = 2
    /\ WroteIn(\hE000, \hFDFF)
    /\ read_byte(data, \hC000) = \hBC
    /\ read_byte(data, \hE000) = \hBC
    /\ read_byte(data, \hDDFF) = \h34
    /\ read_byte(data, \hFDFF) = \h34


\* The opcode Machine::step decodes at the pc of the cpu is Nop.
NopAtPc ==
    /\ cpu # None
    /\ read_byte(data, cpu[1].pc) = \h00

\* C26: from a new Machine (pc = 0x0100), every step whose decoded opcode is
\* Nop increases pc by exactly 1, returns 1 cycle and leaves sp and memory
\* unchanged, so that after k successful steps pc = 0x0100 + k.
C26_NopStepAdvancesPc ==
    [][ NopAtPc =>
          /\ stepRes' = Some(OkCycles(1))
          /\ cpu'[1].pc = cpu[1].pc + 1
          /\ cpu'[1].sp = cpu[1].sp
          /\ data' = data
          /\ cpu'[1].pc = \h0100 + nsteps' ]_vars


\* C27: when the byte at pc decodes to an error, step returns that error;
\* when it decodes to an opcode other than Nop, step returns an Unknown error;
\* either way pc, sp and memory are unchanged, and every later step returns
\* the same error.
C27_StepErrorLeavesMachine ==
    [][ (cpu # None /\ lastStep' # None) =>
          LET res == from_memory(data, cpu[1].pc, lastStep'[1].checks)
          IN /\ res.kind = "Err" =>
                   stepRes' = Some(res) /\ cpu' = cpu /\ data' = data
             /\ (res.kind = "Ok" /\ res.op.opcode.name # "Nop") =>
                   /\ stepRes' = Some(Unknown(res.op.opcode))
                   /\ cpu' = cpu
                   /\ data' = data
             /\ \A r \in Range(stepRes) :
                   r.kind = "Err" => stepRes' = stepRes /\ cpu' = cpu ]_vars

C27_Witness ==
    /\ cpu # None
    /\ nsteps = 1
    /\ cpu[1] = [pc |-> \h0101, sp |-> \hFFFE]
    /\ read_byte(data, \h0101) = \hFE
    /\ stepRes = Some(Unknown(Opcode("Cp8Imm", <<\h01>>)))

====
